---- MODULE Spec2Model ----
(***************************************************************************)
(* Model of the two utilities of the repository:                           *)
(*   - web_service.py: the Flask deploy trigger (health_check, run_dbt and  *)
(*     the background thread execute_dbt writing the shared record          *)
(*     last_execution);                                                     *)
(*   - audit_dbt_setup.py: the static auditor (load_yaml, the four checks   *)
(*     and main).                                                           *)
(* The two programs share no state; each has its own specification.        *)
(***************************************************************************)
EXTENDS Integers, Sequences, FiniteSets, TLC

(***************************************************************************)
(* Bounds of the model.                                                    *)
(***************************************************************************)
\* number of run requests the environment makes
MaxRuns == 2
\* captured standard error is at most Slice + MaxErrExtra characters long
MaxErrExtra == 1

(***************************************************************************)
(* Program constants of web_service.py.                                    *)
(***************************************************************************)
\* timeout=1200 of subprocess.run
Timeout == 1200
\* result.stderr[-500:]
Slice == 500

(***************************************************************************)
(* Python strings of the service are sequences of one-character strings.   *)
(* None is a value different from every string.                            *)
(***************************************************************************)
None == [k |-> "None"]

Text(cs) == [k |-> "str", chars |-> cs]

SuccessText ==
    <<"D", "e", "p", "l", "o", "y", "m", "e", "n", "t", " ", "c", "o", "m", "p", "l", "e", "t", "e", "d", " ", "s", "u", "c", "c", "e", "s", "s", "f", "u", "l", "l", "y">>

FailedPrefix ==
    <<"D", "e", "p", "l", "o", "y", "m", "e", "n", "t", " ", "f", "a", "i", "l", "e", "d", ":", " ">>

ErrorPrefix ==
    <<"E", "r", "r", "o", "r", ":", " ">>

\* str(TimeoutExpired(['./deploy.sh', 'prod', 'run'], 1200))
TimeoutText ==
    <<"C", "o", "m", "m", "a", "n", "d", " ", "'", "[", "'", ".", "/", "d", "e", "p", "l", "o", "y", ".", "s", "h", "'", ",", " ", "'", "p", "r", "o", "d", "'", ",", " ", "'", "r", "u", "n", "'", "]", "'", " ", "t", "i", "m", "e", "d", " ", "o", "u", "t", " ", "a", "f", "t", "e", "r", " ", "1", "2", "0", "0", " ", "s", "e", "c", "o", "n", "d", "s">>

\* str(FileNotFoundError) of a deploy.sh that cannot be launched
LaunchText ==
    <<"[", "E", "r", "r", "n", "o", " ", "2", "]", " ", "N", "o", " ", "s", "u", "c", "h", " ", "f", "i", "l", "e", " ", "o", "r", " ", "d", "i", "r", "e", "c", "t", "o", "r", "y", ":", " ", "'", ".", "/", "d", "e", "p", "l", "o", "y", ".", "s", "h", "'">>

\* s[:n]: the slice taken from the wrong end
LastChars_head(s, n) ==
    IF Len(s) > n THEN SubSeq(s, 1, n) ELSE s

\* s[-n:] of Python for n > 0
LastChars(s, n) ==
    IF Len(s) > n THEN SubSeq(s, Len(s) - n + 1, Len(s)) ELSE s

\* s starts with p
StartsWith(s, p) ==
    Len(s) >= Len(p) /\ SubSeq(s, 1, Len(p)) = p

(***************************************************************************)
(* The external command: what the child process does is an input.          *)
(***************************************************************************)
\* the standard error a child can write: n characters x, y, z in turn, so
\* that the first and the last Slice characters of a longer text differ
StderrOf(n) == [i \in 1..n |-> <<"x", "y", "z">>[(i % 3) + 1]]

ErrLens == {0, Slice - 1} \cup (Slice .. (Slice + MaxErrExtra))

\* a child that never exits by itself
Hang == -1

Durations == {0, Timeout - 1, Timeout + 1, Hang}

\* subprocess.run without timeout=: the call waits for the child for ever
WaitChild_unbounded(d, limit) ==
    IF d = Hang THEN "blocked" ELSE "exit"

\* subprocess.run(..., timeout=limit) on a child of duration d: the call
\* returns the completed process, or kills the child and raises TimeoutExpired
WaitChild(d, limit) ==
    IF d = Hang \/ d > limit THEN "timeout" ELSE "exit"

\* a completed call is kept as its exit code and the number of characters
\* the child wrote to standard error; the captured text is StderrOf of it
NoResult == [kind |-> "none", rc |-> 0, errlen |-> 0]

\* result.stderr
CapturedStderr(res) == StderrOf(res.errlen)

\* subprocess.run(['./deploy.sh', 'prod', 'run'], capture_output=True,
\* text=True, env=env, timeout=1200): a launch failure raises, a child that
\* outlives the timeout raises, otherwise the exit code and the captured
\* standard error are returned
subprocess_run(launchable, d, rc, n) ==
    IF ~launchable
    THEN [kind |-> "launch", rc |-> 0, errlen |-> 0]
    ELSE IF WaitChild(d, Timeout) = "exit"
         THEN [kind |-> "exit", rc |-> rc, errlen |-> n]
         ELSE [kind |-> WaitChild(d, Timeout), rc |-> 0, errlen |-> 0]

\* what the environment can make of one call: deploy.sh can be launched or
\* not, the child takes d seconds, exits with rc and has written n
\* characters to standard error (a child that exits with 0 wrote none)
RunResults ==
    {subprocess_run(x[1], x[2], x[3], x[4]) :
        x \in {y \in BOOLEAN \X Durations \X {0, 1} \X ErrLens : y[3] = 0 => y[4] = 0}}

\* str(e) of the exception subprocess.run raised
ExceptionText(res) ==
    IF res.kind = "launch" THEN LaunchText ELSE TimeoutText

(***************************************************************************)
(* audit_dbt_setup.py.  A parsed YAML value is a tagged record: null, a     *)
(* string, an integer, a list, or a mapping kept as its sequence of         *)
(* <<key, value>> pairs in file order (keys are strings).                   *)
(***************************************************************************)
YNull == [k |-> "null"]

YStr(s) == [k |-> "str", v |-> s]

YInt(n) == [k |-> "int", v |-> n]

YList(items) == [k |-> "list", v |-> items]

YMap(pairs) == [k |-> "map", v |-> pairs]

\* {} and [] of Python
EmptyMap == YMap(<<>>)

EmptyList == YList(<<>>)

\* bool(v)
Truthy(v) ==
    CASE v.k = "null" -> FALSE
      [] v.k = "str" -> v.v /= ""
      [] v.k = "int" -> v.v /= 0
      [] v.k \in {"list", "map"} -> Len(v.v) > 0

\* a == b
PyEq(a, b) == a.k = b.k /\ (a.k = "null" \/ a.v = b.v)

\* v == "s" for a string literal s
EqStr(v, s) == v.k = "str" /\ v.v = s

\* key in m, for a mapping m and a string key
HasKey(m, key) == \E i \in 1..Len(m.v) : m.v[i][1] = key

\* m[key] for a key of m
Lookup(m, key) == m.v[CHOOSE i \in 1..Len(m.v) : m.v[i][1] = key][2]

\* m.get(key) for a mapping m
get(m, key) == IF HasKey(m, key) THEN Lookup(m, key) ELSE YNull

\* only a mapping has .get, .keys and .items: on any other value the call
\* raises AttributeError
HasGet(v) == v.k = "map"

\* a in b for strings: the strings of the documents below are chosen so that
\* none contains another one, except as the empty string or the whole string
Substring(a, b) == a = "" \/ a = b

\* x in c raises TypeError: an unhashable x looked up in a mapping, a
\* non-string x searched in a string, or a c that is no container
InRaises(x, c) ==
    CASE c.k = "map" -> x.k \in {"list", "map"}
      [] c.k = "list" -> FALSE
      [] c.k = "str" -> x.k /= "str"
      [] OTHER -> TRUE

\* the value of x in c when it does not raise
InValue(x, c) ==
    CASE c.k = "map" -> x.k = "str" /\ HasKey(c, x.v)
      [] c.k = "list" -> \E i \in 1..Len(c.v) : PyEq(c.v[i], x)
      [] c.k = "str" -> Substring(x.v, c.v)

\* c[x] raises: a missing key, a list indexed by a non-integer or out of
\* range, a string indexed by a string, a value that cannot be indexed
IndexRaises(c, x) ==
    CASE c.k = "map" -> ~(x.k = "str" /\ HasKey(c, x.v))
      [] c.k = "list" -> ~(x.k = "int" /\ x.v >= 0 /\ x.v < Len(c.v))
      [] OTHER -> TRUE

\* the value of c[x] when it does not raise
Index(c, x) == IF c.k = "map" THEN Lookup(c, x.v) ELSE c.v[x.v + 1]

\* the characters of the strings that the documents below let a loop iterate
Chars(s) ==
    CASE s = "" -> <<>>
      [] s = "m" -> <<"m">>
      [] s = "models" -> <<"m", "o", "d", "e", "l", "s">>

\* for x in v raises TypeError: v is not iterable
IterRaises(v) == v.k \in {"null", "int"}

\* the items for x in v goes through: the items of a list, the keys of a
\* mapping, the characters of a string
IterItems(v) ==
    CASE v.k = "list" -> v.v
      [] v.k = "map" -> [i \in 1..Len(v.v) |-> YStr(v.v[i][1])]
      [] v.k = "str" -> [i \in 1..Len(Chars(v.v)) |-> YStr(Chars(v.v)[i])]

\* s.strip() == "" for the strings of the documents below
StripsToEmpty(s) == s \in {"", " "}

\* str(v) as an f-string renders it; containers are rendered without their
\* items
Str(v) ==
    CASE v.k = "null" -> "None"
      [] v.k = "str" -> v.v
      [] v.k = "int" -> ToString(v.v)
      [] v.k = "list" -> "[...]"
      [] v.k = "map" -> "{...}"

\* list(m.keys())
KeyList(m) == [i \in 1..Len(m.v) |-> m.v[i][1]]

(***************************************************************************)
(* Findings.  acc is the pair of lists PROBLEMS and WARNINGS together with  *)
(* a flag telling that an exception is propagating.                         *)
(***************************************************************************)
Finding(text, arg, extra) == [text |-> text, arg |-> arg, extra |-> extra]

\* PROBLEMS.append(...)
Problem(acc, text, arg, extra) ==
    [acc EXCEPT !.P = Append(acc.P, Finding(text, arg, extra))]

\* WARNINGS.append(...)
Warning(acc, text, arg, extra) ==
    [acc EXCEPT !.W = Append(acc.W, Finding(text, arg, extra))]

\* an exception leaves the statement
Raise(acc) == [acc EXCEPT !.raised = TRUE]

\* a file of the project tree: missing, present and unreadable as YAML, or
\* present with the document yaml.safe_load returns
MissingFile == [state |-> "missing", doc |-> YNull]

BadFile == [state |-> "unparsable", doc |-> YNull]

File(doc) == [state |-> "ok", doc |-> doc]

\* a loader that returns {} for a missing file without recording it
load_yaml_quiet(file, relpath, acc) ==
    CASE file.state = "missing" ->
            [doc |-> EmptyMap, acc |-> acc]
      [] file.state = "unparsable" ->
            [doc |-> EmptyMap, acc |-> Problem(acc, "Failed to parse YAML", relpath, <<>>)]
      [] file.state = "ok" ->
            [doc |-> IF Truthy(file.doc) THEN file.doc ELSE EmptyMap, acc |-> acc]

\* load_yaml(path): the document and the findings after the call; a missing
\* file and a parse error are recorded and give {}, as does a falsy document
load_yaml(file, relpath, acc) ==
    CASE file.state = "missing" ->
            [doc |-> EmptyMap, acc |-> Problem(acc, "Missing file", relpath, <<>>)]
      [] file.state = "unparsable" ->
            [doc |-> EmptyMap, acc |-> Problem(acc, "Failed to parse YAML", relpath, <<>>)]
      [] file.state = "ok" ->
            [doc |-> IF Truthy(file.doc) THEN file.doc ELSE EmptyMap, acc |-> acc]

\* lines 90-99: the body of the loop over outputs.items()
OutputBody(out_name, out, acc) ==
    IF ~HasGet(out) THEN Raise(acc)
    ELSE LET a1 == IF ~EqStr(get(out, "type"), "bigquery")
                   THEN Warning(acc, "profiles.yml: output type is not bigquery",
                                out_name, <<Str(get(out, "type"))>>)
                   ELSE acc
             keyfile == get(out, "keyfile")
         IN  IF /\ EqStr(get(out, "method"), "service-account")
                /\ keyfile.k = "str"
                /\ StripsToEmpty(keyfile.v)
             THEN Warning(a1, "profiles.yml: service-account keyfile is empty string",
                          out_name, <<>>)
             ELSE a1

\* line 89: for out_name, out in outputs.items()
RECURSIVE OutputsLoop(_, _, _)
OutputsLoop(outputs, i, acc) ==
    IF acc.raised \/ i > Len(outputs.v) THEN acc
    ELSE OutputsLoop(outputs, i + 1, OutputBody(outputs.v[i][1], outputs.v[i][2], acc))

\* lines 78-99: the checks of the profile the project names
ProfileBody(prof, profile_name, acc) ==
    IF ~HasGet(prof) THEN Raise(acc)
    ELSE LET target == get(prof, "target")
             outputs == IF Truthy(get(prof, "outputs")) THEN get(prof, "outputs")
                        ELSE EmptyMap
             a1 == IF ~Truthy(outputs)
                   THEN Problem(acc, "profiles.yml: profile has no outputs",
                                Str(profile_name), <<>>)
                   ELSE acc
         IN  IF Truthy(target) /\ InRaises(target, outputs) THEN Raise(a1)
             ELSE LET a2 == IF Truthy(target) /\ ~InValue(target, outputs)
                            THEN Problem(a1, "profiles.yml: target not defined under outputs",
                                         Str(target), <<Str(profile_name)>>)
                            ELSE a1
                  IN  IF ~HasGet(outputs) THEN Raise(a2)
                      ELSE OutputsLoop(outputs, 1, a2)

\* lines 57-60: the two early returns of check_project_and_profile
SkipsProjectChecks(project, profiles) == ~Truthy(project) \/ ~Truthy(profiles)

\* check_project_and_profile(), lines 49-99
check_project_and_profile(fs, acc) ==
    LET l1 == load_yaml(fs.project, "dbt_project.yml", acc)
        l2 == load_yaml(fs.profiles, "profiles.yml", l1.acc)
        project == l1.doc
        profiles == l2.doc
        a2 == l2.acc
    IN  IF SkipsProjectChecks(project, profiles) THEN a2
        ELSE IF ~HasGet(project) THEN Raise(a2)
        ELSE
          LET proj_name == get(project, "name")
              profile_name == get(project, "profile")
              a3 == IF ~Truthy(proj_name)
                    THEN Problem(a2, "dbt_project.yml: 'name' is required", "", <<>>)
                    ELSE a2
              a4 == IF ~Truthy(profile_name)
                    THEN Problem(a3, "dbt_project.yml: 'profile' is required", "", <<>>)
                    ELSE a3
          IN  IF ~Truthy(profile_name) THEN a4
              ELSE IF InRaises(profile_name, profiles) THEN Raise(a4)
              ELSE IF ~InValue(profile_name, profiles)
                   THEN (IF ~HasGet(profiles) THEN Raise(a4)
                         ELSE Problem(a4, "profiles.yml: profile not found",
                                      Str(profile_name), KeyList(profiles)))
              ELSE IF IndexRaises(profiles, profile_name) THEN Raise(a4)
              ELSE ProfileBody(Index(profiles, profile_name), profile_name, a4)

\* lines 107-114: the path-list keys and whether each is required
path_keys ==
    << <<"model-paths", TRUE>>, <<"analysis-paths", FALSE>>,
       <<"test-paths", FALSE>>, <<"seed-paths", FALSE>>,
       <<"macro-paths", FALSE>>, <<"snapshot-paths", FALSE>> >>

\* lines 119-122: for p in paths; os.path.join raises on a p that is no string
RECURSIVE PathsLoop(_, _, _, _, _)
PathsLoop(items, key, existing, i, acc) ==
    IF acc.raised \/ i > Len(items) THEN acc
    ELSE LET p == items[i]
         IN  PathsLoop(items, key, existing, i + 1,
                IF p.k /= "str" THEN Raise(acc)
                ELSE IF p.v \notin existing
                     THEN Warning(acc, "Path does not exist yet", p.v, <<key>>)
                     ELSE acc)

\* lines 115-122: for key, required in path_keys
RECURSIVE KeysLoop(_, _, _, _)
KeysLoop(project, existing, j, acc) ==
    IF acc.raised \/ j > Len(path_keys) THEN acc
    ELSE LET key == path_keys[j][1]
             required == path_keys[j][2]
             paths == IF Truthy(get(project, key)) THEN get(project, key)
                      ELSE EmptyList
             a1 == IF required /\ ~Truthy(paths)
                   THEN Problem(acc, "dbt_project.yml: path list missing or empty", key, <<>>)
                   ELSE acc
         IN  KeysLoop(project, existing, j + 1,
                IF IterRaises(paths) THEN Raise(a1)
                ELSE PathsLoop(IterItems(paths), key, existing, 1, a1))

\* check_paths(), lines 102-122
check_paths(fs, existing, acc) ==
    LET l1 == load_yaml(fs.project, "dbt_project.yml", acc)
        project == l1.doc
    IN  IF ~Truthy(project) THEN l1.acc
        ELSE IF ~HasGet(project) THEN Raise(l1.acc)
        ELSE KeysLoop(project, existing, 1, l1.acc)

\* data.get("version") not in (2, "2")
VersionIsNot2(data) ==
    ~(PyEq(get(data, "version"), YInt(2)) \/ PyEq(get(data, "version"), YStr("2")))

\* lines 142-147: one entry of a column's tests
TestBody(t, acc) ==
    IF t.k = "map" /\ HasKey(t, "accepted_values")
    THEN LET av == Lookup(t, "accepted_values")
         IN  IF av.k = "map" /\ HasKey(av, "arguments") /\ ~HasKey(av, "values")
             THEN Problem(acc, "models/schema.yml: 'accepted_values' should be 'values: [...]'",
                          "", <<>>)
             ELSE acc
    ELSE acc

\* line 141: for t in tests
RECURSIVE TestsLoop(_, _, _)
TestsLoop(items, i, acc) ==
    IF i > Len(items) THEN acc
    ELSE TestsLoop(items, i + 1, TestBody(items[i], acc))

\* lines 140-147: tests = (c or {}).get("tests") or []
ColumnBody(c, acc) ==
    LET cc == IF Truthy(c) THEN c ELSE EmptyMap
    IN  IF ~HasGet(cc) THEN Raise(acc)
        ELSE LET tests == IF Truthy(get(cc, "tests")) THEN get(cc, "tests")
                          ELSE EmptyList
             IN  IF IterRaises(tests) THEN Raise(acc)
                 ELSE TestsLoop(IterItems(tests), 1, acc)

\* line 139: for c in cols
RECURSIVE ColumnsLoop(_, _, _)
ColumnsLoop(items, i, acc) ==
    IF acc.raised \/ i > Len(items) THEN acc
    ELSE ColumnsLoop(items, i + 1, ColumnBody(items[i], acc))

\* lines 138-147: cols = (m or {}).get("columns") or []
ModelBody(m, acc) ==
    LET mm == IF Truthy(m) THEN m ELSE EmptyMap
    IN  IF ~HasGet(mm) THEN Raise(acc)
        ELSE LET cols == IF Truthy(get(mm, "columns")) THEN get(mm, "columns")
                         ELSE EmptyList
             IN  IF IterRaises(cols) THEN Raise(acc)
                 ELSE ColumnsLoop(IterItems(cols), 1, acc)

\* line 137: for m in models
RECURSIVE ModelsLoop(_, _, _)
ModelsLoop(items, i, acc) ==
    IF acc.raised \/ i > Len(items) THEN acc
    ELSE ModelsLoop(items, i + 1, ModelBody(items[i], acc))

\* check_models_yaml(), lines 125-147
check_models_yaml(file, acc) ==
    LET l1 == load_yaml(file, "models/schema.yml", acc)
        data == l1.doc
    IN  IF ~Truthy(data) THEN l1.acc
        ELSE IF ~HasGet(data) THEN Raise(l1.acc)
        ELSE LET a1 == IF VersionIsNot2(data)
                       THEN Warning(l1.acc, "models/schema.yml: 'version: 2' is recommended",
                                    "", <<>>)
                       ELSE l1.acc
                 models == get(data, "models")
             IN  IF models.k /= "list"
                 THEN Problem(a1, "models/schema.yml: 'models' should be a list", "", <<>>)
                 ELSE ModelsLoop(models.v, 1, a1)

\* lines 163-166: one entry of sources
SourceBody(s, acc) ==
    IF InRaises(YStr("database"), s) THEN Raise(acc)
    ELSE IF InValue(YStr("database"), s) THEN acc
    ELSE IF ~HasGet(s) THEN Raise(acc)
    ELSE Warning(acc, "models/sources.yml: source has no 'database'",
                 Str(get(s, "name")), <<>>)

\* line 162: for s in sources
RECURSIVE SourcesLoop(_, _, _)
SourcesLoop(items, i, acc) ==
    IF acc.raised \/ i > Len(items) THEN acc
    ELSE SourcesLoop(items, i + 1, SourceBody(items[i], acc))

\* check_sources_yaml(), lines 150-166
check_sources_yaml(file, acc) ==
    LET l1 == load_yaml(file, "models/sources.yml", acc)
        data == l1.doc
    IN  IF ~Truthy(data) THEN l1.acc
        ELSE IF ~HasGet(data) THEN Raise(l1.acc)
        ELSE LET a1 == IF VersionIsNot2(data)
                       THEN Warning(l1.acc, "models/sources.yml: 'version: 2' is recommended",
                                    "", <<>>)
                       ELSE l1.acc
                 sources == get(data, "sources")
             IN  IF sources.k /= "list" \/ ~Truthy(sources)
                 THEN Problem(a1, "models/sources.yml: at least one source should be defined",
                              "", <<>>)
                 ELSE SourcesLoop(sources.v, 1, a1)

\* an exit status that also counts the advisories
ExitStatus_any(problems, warnings) ==
    IF Len(problems) > 0 \/ Len(warnings) > 0 THEN 1 ELSE 0

\* line 195: return 1 if PROBLEMS else 0
ExitStatus(problems, warnings) == IF Len(problems) > 0 THEN 1 ELSE 0

\* lines 175-193: the lines main prints
Report(problems, warnings) ==
    <<"DBT SETUP AUDIT REPORT">>
    \o (IF Len(problems) > 0
        THEN <<"Blocking issues:">> \o [i \in 1..Len(problems) |-> "- [ERROR]"]
        ELSE <<"No blocking issues found.">>)
    \o (IF Len(warnings) > 0
        THEN <<"Advisories:">> \o [i \in 1..Len(warnings) |-> "- [WARN]"]
        ELSE <<>>)
    \o <<"JSON:">>

(***************************************************************************)
(* The project trees the auditor is run on.                                *)
(***************************************************************************)
Absent == [k |-> "absent"]

\* the pair of a key that the document has, nothing for a key it lacks
Opt(key, val) == IF val.k = "absent" THEN <<>> ELSE << <<key, val>> >>

ProjectDoc(name, profile, model_paths, macro_paths) ==
    YMap(Opt("name", name) \o Opt("profile", profile)
         \o Opt("model-paths", model_paths) \o Opt("macro-paths", macro_paths))

ProjectNames == {Absent, YStr(""), YStr("proj")}

ProjectProfiles == {Absent, YStr(""), YStr("x"), YStr("y"), YList(<<YStr("x")>>)}

ProjectPaths ==
    {Absent, EmptyList, YList(<<YStr("models")>>), YList(<<YStr("models"), YStr("m")>>),
     YStr("models"), YInt(5), YList(<<YInt(1)>>)}

ProjectFiles ==
    {MissingFile, BadFile}
    \cup {File(d) : d \in {YNull, EmptyMap, YList(<<YStr("models")>>), YStr("proj")}}
    \cup {File(ProjectDoc(n, p, YList(<<YStr("models")>>), Absent)) :
             n \in ProjectNames, p \in ProjectProfiles}
    \cup {File(ProjectDoc(YStr("proj"), YStr("x"), mp, op)) :
             mp \in ProjectPaths, op \in {Absent, YList(<<YStr("m")>>)}}

OutputDoc(type, method, keyfile) ==
    YMap(Opt("type", type) \o Opt("method", method) \o Opt("keyfile", keyfile))

OutputRecs ==
    {YNull, YStr("bigquery"),
     OutputDoc(Absent, Absent, Absent),
     OutputDoc(YStr("bigquery"), Absent, Absent),
     OutputDoc(YStr("postgres"), Absent, Absent),
     OutputDoc(YStr("bigquery"), YStr("oauth"), YStr(""))}
    \cup {OutputDoc(YStr("bigquery"), YStr("service-account"), kf) :
             kf \in {Absent, YStr(""), YStr(" "), YStr("key.json"), YInt(0)}}

PlainOutputs ==
    {Absent, EmptyMap, YList(<<YStr("prod")>>), YStr("prod"),
     YMap(<< <<"prod", OutputDoc(YStr("bigquery"), Absent, Absent)>> >>)}

ProfileDoc(target, outputs) == YMap(Opt("target", target) \o Opt("outputs", outputs))

ProfileRecs ==
    {YNull, YStr("p"), YList(<<YStr("prod")>>)}
    \cup {ProfileDoc(t, o) :
             t \in {Absent, YStr("dev"), YStr("prod"), YList(<<YStr("prod")>>)},
             o \in PlainOutputs}
    \cup {ProfileDoc(YStr("prod"), YMap(<< <<"prod", o>> >>)) : o \in OutputRecs}
    \cup {ProfileDoc(YStr("dev"),
                     YMap(<< <<"dev", OutputDoc(YStr("postgres"), Absent, Absent)>>,
                             <<"prod", YNull>> >>))}

ProfilesFiles ==
    {MissingFile, BadFile}
    \cup {File(d) : d \in {YNull, EmptyMap, YList(<<YStr("x")>>), YStr("x")}}
    \cup {File(YMap(<< <<"x", pr>> >>)) : pr \in ProfileRecs}

TestEntries ==
    {YStr("unique"),
     YMap(<< <<"accepted_values", YMap(<< <<"values", YList(<<YStr("a")>>)>> >>)>> >>),
     YMap(<< <<"accepted_values", YMap(<< <<"arguments", EmptyMap>> >>)>> >>),
     YMap(<< <<"accepted_values",
               YMap(<< <<"arguments", EmptyMap>>, <<"values", EmptyList>> >>)>> >>),
     YMap(<< <<"accepted_values", YList(<<YStr("arguments")>>)>> >>)}

ColumnEntries ==
    {YNull, YStr("m"), YMap(<< <<"name", YStr("id")>> >>),
     YMap(<< <<"tests", YInt(5)>> >>), YMap(<< <<"tests", YStr("models")>> >>)}
    \cup {YMap(<< <<"tests", YList(<<t>>)>> >>) : t \in TestEntries}

ModelEntries ==
    {YNull, YStr("m"), YInt(5), YMap(<< <<"name", YStr("orders")>> >>),
     YMap(<< <<"columns", YInt(5)>> >>), YMap(<< <<"columns", YStr("m")>> >>)}
    \cup {YMap(<< <<"columns", YList(<<c>>)>> >>) : c \in ColumnEntries}

SchemaDoc(version, models) == YMap(Opt("version", version) \o Opt("models", models))

SchemaFiles ==
    {MissingFile, BadFile}
    \cup {File(d) : d \in {YNull, YList(<<YStr("m")>>), YInt(5)}}
    \cup {File(SchemaDoc(v, YList(<<YMap(<< <<"name", YStr("orders")>> >>)>>))) :
             v \in {Absent, YInt(2), YStr("2"), YInt(1)}}
    \cup {File(SchemaDoc(YInt(2), ms)) : ms \in {Absent, EmptyList, YStr("m"), EmptyMap}}
    \cup {File(SchemaDoc(YInt(2), YList(<<m>>))) : m \in ModelEntries}

SourceEntries ==
    {YNull, YInt(5), YStr("raw"), YStr("database"), EmptyList,
     YList(<<YStr("database")>>),
     YMap(<< <<"name", YStr("raw")>> >>),
     YMap(<< <<"name", YStr("raw")>>, <<"database", YStr("proj")>> >>)}

SourcesDoc(version, sources) == YMap(Opt("version", version) \o Opt("sources", sources))

SourcesFiles ==
    {MissingFile, BadFile}
    \cup {File(d) : d \in {YNull, YList(<<YStr("raw")>>), YStr("raw")}}
    \cup {File(SourcesDoc(v, YList(<<YMap(<< <<"name", YStr("raw")>>,
                                            <<"database", YStr("proj")>> >>)>>))) :
             v \in {Absent, YInt(2), YInt(1)}}
    \cup {File(SourcesDoc(YInt(2), ss)) : ss \in {Absent, EmptyList, YStr("raw"), EmptyMap}}
    \cup {File(SourcesDoc(YInt(2), YList(<<s>>))) : s \in SourceEntries}
    \cup {File(SourcesDoc(YInt(2), YList(<<YMap(<< <<"name", YStr("raw")>> >>), YNull>>)))}

\* the directories that exist under the project root
DirSets == {{}, {"models"}}

(***************************************************************************)
(* State of the deploy trigger service.                                    *)
(***************************************************************************)
VARIABLES
    last_execution,  \* the global record {time, status, message}
    nreq,            \* number of /run requests received so far
    hpc,             \* hpc[r]: position of the handler run_dbt of request r
    tpc,             \* tpc[r]: position of the thread execute_dbt of request r
    result,          \* result[r]: what subprocess.run gave thread r
    clock,           \* datetime.now()
    health,          \* output: last_execution as sent by the health_check that
                     \* has just returned, NoHealth after any other step
    overlap,         \* history: a request arrived while a task was in progress
    lastWrite,       \* history: who wrote status last, and nreq at that time
    lastDone         \* history: the subprocess result of the task that ended last

wvars == <<last_execution, nreq, hpc, tpc, result, clock, health, overlap,
           lastWrite, lastDone>>

(***************************************************************************)
(* State of the auditor.                                                   *)
(***************************************************************************)
VARIABLES
    files,      \* dbt_project.yml and profiles.yml of the project tree
    dirs,       \* the directories that exist under the project root
    PROBLEMS,   \* the global list PROBLEMS
    WARNINGS,   \* the global list WARNINGS
    apc,        \* position of main: the line it is about to run
    exit_code,  \* what main returned, NoExit before it returns
    stdout      \* the lines main printed

avars == <<files, dirs, PROBLEMS, WARNINGS, apc, exit_code, stdout>>

vars == <<wvars, avars>>

Runs == 1..MaxRuns

\* the thread of request r has been started and has not returned
InProgress(r) == tpc[r] \notin {"idle", "done"}

InitialRecord == [time |-> 0, status |-> "None", message |-> None]

NoHealth ==
    [status |-> "no response", service |-> "", timestamp |-> 0,
     last_execution |-> InitialRecord]

\* the body of the response of GET /
HealthResponse(rec, now) ==
    [status |-> "healthy", service |-> "dbt-transformer", timestamp |-> now,
     last_execution |-> rec]

WebInit ==
    /\ last_execution = InitialRecord
    /\ nreq = 0
    /\ hpc = [r \in Runs |-> "idle"]
    /\ tpc = [r \in Runs |-> "idle"]
    /\ result = [r \in Runs |-> NoResult]
    /\ clock = 0
    /\ health = NoHealth
    /\ overlap = FALSE
    /\ lastWrite = [task |-> 0, nreq |-> 0]
    /\ lastDone = NoResult

\* GET /: the record as it is when the handler serialises it
health_check ==
    /\ health' = HealthResponse(last_execution, clock)
    /\ UNCHANGED <<last_execution, nreq, hpc, tpc, result, clock, overlap,
                   lastWrite, lastDone>>
    /\ UNCHANGED avars

\* /run, up to thread.start(): the thread exists and may run from now on
run_dbt_start ==
    /\ nreq < MaxRuns
    /\ nreq' = nreq + 1
    /\ hpc' = [hpc EXCEPT ![nreq + 1] = "started"]
    /\ tpc' = [tpc EXCEPT ![nreq + 1] = "L29"]
    /\ overlap' = (overlap \/ \E r \in Runs : InProgress(r))
    /\ health' = NoHealth
    /\ UNCHANGED <<last_execution, result, clock, lastWrite, lastDone>>
    /\ UNCHANGED avars

\* a handler that joins its thread before it answers
run_dbt_return_joined(r) ==
    /\ hpc[r] = "started"
    /\ tpc[r] = "done"
    /\ hpc' = [hpc EXCEPT ![r] = "returned"]
    /\ health' = NoHealth
    /\ UNCHANGED <<last_execution, nreq, tpc, result, clock, overlap,
                   lastWrite, lastDone>>
    /\ UNCHANGED avars

\* /run, return jsonify({"status": "started", ...})
run_dbt_return(r) ==
    /\ hpc[r] = "started"
    /\ hpc' = [hpc EXCEPT ![r] = "returned"]
    /\ health' = NoHealth
    /\ UNCHANGED <<last_execution, nreq, tpc, result, clock, overlap,
                   lastWrite, lastDone>>
    /\ UNCHANGED avars

\* the value a write to last_execution["status"] leaves in the record
SetStatus(rec, v) == [rec EXCEPT !.status = v]

\* the value a write to last_execution["message"] leaves in the record
SetMessage(rec, m) == [rec EXCEPT !.message = m]

\* line 29: last_execution["time"] = datetime.now().isoformat()
execute_dbt_time(r) ==
    /\ tpc[r] = "L29"
    /\ clock' = clock + 1
    /\ last_execution' = [last_execution EXCEPT !.time = clock + 1]
    /\ tpc' = [tpc EXCEPT ![r] = "L30"]
    /\ health' = NoHealth
    /\ UNCHANGED <<nreq, hpc, result, overlap, lastWrite, lastDone>>
    /\ UNCHANGED avars

\* the record after line 30: last_execution["status"] = "running"
MarkRunning(rec) == SetStatus(rec, "running")

execute_dbt_running(r) ==
    /\ tpc[r] = "L30"
    /\ last_execution' = MarkRunning(last_execution)
    /\ lastWrite' = [task |-> r, nreq |-> nreq]
    /\ tpc' = [tpc EXCEPT ![r] = "L38"]
    /\ health' = NoHealth
    /\ UNCHANGED <<nreq, hpc, result, clock, overlap, lastDone>>
    /\ UNCHANGED avars

\* where the thread goes after subprocess.run: line 48 on exit code 0,
\* line 52 on another exit code, line 57 (except Exception) when it raised;
\* a call that neither returns nor raises leaves the thread in the call
AfterRun(res) ==
    IF res.kind = "exit"
    THEN (IF res.rc = 0 THEN "L48" ELSE "L52")
    ELSE IF res.kind \in {"launch", "timeout"} THEN "L57" ELSE "blocked"

\* lines 38-46: result = subprocess.run(...)
execute_dbt_run(r) ==
    /\ tpc[r] = "L38"
    /\ \E res \in RunResults : result' = [result EXCEPT ![r] = res]
    /\ tpc' = [tpc EXCEPT ![r] = AfterRun(result'[r])]
    /\ health' = NoHealth
    /\ UNCHANGED <<last_execution, nreq, hpc, clock, overlap,
                   lastWrite, lastDone>>
    /\ UNCHANGED avars

\* an except branch that records the outcome of the other branch
OutcomeStatus_except_ok(line) == IF line \in {"L48", "L57"} THEN "success" ELSE "error"

\* the status written at lines 48, 52 and 57
OutcomeStatus(line) == IF line = "L48" THEN "success" ELSE "error"

\* lines 48, 52, 57: last_execution["status"] = ...
execute_dbt_status(r) ==
    /\ tpc[r] \in {"L48", "L52", "L57"}
    /\ last_execution' = SetStatus(last_execution, OutcomeStatus(tpc[r]))
    /\ lastWrite' = [task |-> r, nreq |-> nreq]
    /\ tpc' = [tpc EXCEPT ![r] = CASE tpc[r] = "L48" -> "L49"
                                   [] tpc[r] = "L52" -> "L53"
                                   [] tpc[r] = "L57" -> "L58"]
    /\ health' = NoHealth
    /\ UNCHANGED <<nreq, hpc, result, clock, overlap, lastDone>>
    /\ UNCHANGED avars

\* f"Deployment failed: {result.stderr[-500:]}"
FailedMessage(stderr) == Text(FailedPrefix \o LastChars(stderr, Slice))

\* the message written at lines 49, 53 and 58
OutcomeMessage(line, res) ==
    CASE line = "L49" -> Text(SuccessText)
      [] line = "L53" -> FailedMessage(CapturedStderr(res))
      [] line = "L58" -> Text(ErrorPrefix \o ExceptionText(res))

\* a thread that starts over after a failure instead of ending
execute_dbt_message_retry(r) ==
    /\ tpc[r] \in {"L49", "L53", "L58"}
    /\ last_execution' = SetMessage(last_execution, OutcomeMessage(tpc[r], result[r]))
    /\ lastDone' = result[r]
    /\ result' = [result EXCEPT ![r] = NoResult]
    /\ tpc' = [tpc EXCEPT ![r] = IF tpc[r] = "L49" THEN "done" ELSE "L29"]
    /\ health' = NoHealth
    /\ UNCHANGED <<nreq, hpc, clock, overlap, lastWrite>>
    /\ UNCHANGED avars

\* lines 49, 53, 58: last_execution["message"] = ...; the thread ends
execute_dbt_message(r) ==
    /\ tpc[r] \in {"L49", "L53", "L58"}
    /\ last_execution' = SetMessage(last_execution, OutcomeMessage(tpc[r], result[r]))
    /\ lastDone' = result[r]
    /\ result' = [result EXCEPT ![r] = NoResult]
    /\ tpc' = [tpc EXCEPT ![r] = "done"]
    /\ health' = NoHealth
    /\ UNCHANGED <<nreq, hpc, clock, overlap, lastWrite>>
    /\ UNCHANGED avars

execute_dbt(r) ==
    \/ execute_dbt_time(r)
    \/ execute_dbt_running(r)
    \/ execute_dbt_run(r)
    \/ execute_dbt_status(r)
    \/ execute_dbt_message(r)

WebNext ==
    \/ health_check
    \/ run_dbt_start
    \/ \E r \in Runs : run_dbt_return(r)
    \/ \E r \in Runs : execute_dbt(r)

(***************************************************************************)
(* main(): the four checks in order, the report, the exit status.          *)
(***************************************************************************)
NoExit == -1

AuditInit ==
    /\ files \in [project : ProjectFiles, profiles : ProfilesFiles]
    /\ dirs \in DirSets
    /\ PROBLEMS = <<>>
    /\ WARNINGS = <<>>
    /\ apc = "L170"
    /\ exit_code = NoExit
    /\ stdout = <<>>

\* the position of a run that an exception of the check at `line` ended
RaisedAt(line) ==
    CASE line = "L170" -> "raised@L170"
      [] line = "L171" -> "raised@L171"
      [] line = "L172" -> "raised@L172"
      [] line = "L173" -> "raised@L173"

\* the findings before a check
Acc == [P |-> PROBLEMS, W |-> WARNINGS, raised |-> FALSE]

\* the effect of one check of main on the lists and on the position
RunCheck(res, line, next) ==
    /\ PROBLEMS' = res.P
    /\ WARNINGS' = res.W
    /\ apc' = IF res.raised THEN RaisedAt(line) ELSE next
    /\ UNCHANGED <<files, dirs, exit_code, stdout>>
    /\ UNCHANGED wvars

\* line 170
main_check_project_and_profile ==
    /\ apc = "L170"
    /\ RunCheck(check_project_and_profile(files, Acc), "L170", "L171")

\* line 171
main_check_paths ==
    /\ apc = "L171"
    /\ RunCheck(check_paths(files, dirs, Acc), "L171", "L172")

\* line 172; models/schema.yml is read here
main_check_models_yaml ==
    /\ apc = "L172"
    /\ \E f \in SchemaFiles : RunCheck(check_models_yaml(f, Acc), "L172", "L173")

\* line 173; models/sources.yml is read here
main_check_sources_yaml ==
    /\ apc = "L173"
    /\ \E f \in SourcesFiles : RunCheck(check_sources_yaml(f, Acc), "L173", "L175")

\* lines 175-195
main_report ==
    /\ apc = "L175"
    /\ stdout' = Report(PROBLEMS, WARNINGS)
    /\ exit_code' = ExitStatus(PROBLEMS, WARNINGS)
    /\ apc' = "done"
    /\ UNCHANGED <<files, dirs, PROBLEMS, WARNINGS>>
    /\ UNCHANGED wvars

AuditNext ==
    \/ main_check_project_and_profile
    \/ main_check_paths
    \/ main_check_models_yaml
    \/ main_check_sources_yaml
    \/ main_report

(***************************************************************************)
(* Specifications.  While one program runs, the other one is not there.    *)
(***************************************************************************)
\* the auditor is not running
AuditIdle ==
    /\ files = [project |-> MissingFile, profiles |-> MissingFile]
    /\ dirs = {}
    /\ PROBLEMS = <<>>
    /\ WARNINGS = <<>>
    /\ apc = "off"
    /\ exit_code = NoExit
    /\ stdout = <<>>

Init == WebInit /\ AuditIdle

Next == WebNext

\* the deploy trigger service, every interleaving of handlers and threads
Spec == Init /\ [][Next]_vars

\* every started thread and every handler gets to run
FairSpec ==
    /\ Spec
    /\ \A r \in Runs : WF_vars(execute_dbt(r))
    /\ \A r \in Runs : WF_vars(run_dbt_return(r))

\* the auditor starts on a project tree; the service is not running
AuditStart == AuditInit /\ WebInit

\* one run of the auditor on a project tree
AuditSpec == AuditStart /\ [][AuditNext]_vars

(***************************************************************************)
(* Properties of the deploy trigger service.                               *)
(***************************************************************************)
\* the thread of request r has written "success" or "error"
OutcomeRecorded(r) == tpc[r] \in {"L49", "L53", "L58", "done"}

\* no thread is in progress
Quiet == \A r \in Runs : ~InProgress(r)

C4_Case ==
    /\ health.status = "healthy"
    /\ ~overlap
    /\ nreq > 0
    /\ Quiet
    /\ lastDone.kind = "exit"
    /\ lastDone.rc /= 0

\* t is the last n characters of e, or all of e when it has fewer
IsTailOf(t, e, n) ==
    /\ Len(t) = (IF Len(e) > n THEN n ELSE Len(e))
    /\ \A i \in 1..Len(t) : t[i] = e[Len(e) - Len(t) + i]

\* C4 as stated: after a run whose command exited non-zero, with no other
\* run overlapping it, the health endpoint returns status "error" and a
\* message that is the last 500 characters of the captured standard error,
\* hence never longer than 500 characters.
C4_MessageIsTail ==
    C4_Case =>
        /\ health.last_execution.status = "error"
        /\ health.last_execution.message.k = "str"
        /\ IsTailOf(health.last_execution.message.chars, CapturedStderr(lastDone), Slice)
        /\ Len(health.last_execution.message.chars) <= Slice

\* C4 amended: the message is "Deployment failed: " followed by the last
\* 500 characters of the captured standard error, hence at most 519
\* characters long, of which at most 500 come from the error output.
C4_MessageIsPrefixedTail ==
    C4_Case =>
        /\ health.last_execution.status = "error"
        /\ health.last_execution.message.k = "str"
        /\ LET chars == health.last_execution.message.chars
           IN  /\ StartsWith(chars, FailedPrefix)
               /\ IsTailOf(SubSeq(chars, Len(FailedPrefix) + 1, Len(chars)),
                           CapturedStderr(lastDone), Slice)
               /\ Len(chars) <= Len(FailedPrefix) + Slice

\* health_check answered after a failed run that had written more than 500
\* characters of standard error
C4_Witness ==
    C4_Case /\ Len(CapturedStderr(lastDone)) > Slice

\* C5 as stated: once a thread has recorded "error", the status stays
\* "error" in every step that is not a new run request, also when other
\* requests overlapped the failed one.
C5_ErrorStaysUntilTrigger ==
    [][(last_execution.status = "error" /\ nreq' = lastWrite.nreq)
          => last_execution'.status = "error"]_vars

\* C5 amended: once a thread has recorded "error" while no other thread is
\* in progress, the status stays "error" in every step that is not a new
\* run request.
C5_ErrorStaysWhenAlone ==
    [][(/\ last_execution.status = "error"
        /\ nreq' = lastWrite.nreq
        /\ \A r \in Runs : r /= lastWrite.task => ~InProgress(r))
          => last_execution'.status = "error"]_vars

\* a failed run has ended, nothing else is in progress and no request was
\* made since: the record is left in the error state
C5_Witness ==
    /\ last_execution.status = "error"
    /\ lastWrite.nreq = nreq
    /\ lastWrite.task > 0
    /\ Quiet

\* C8 as stated: when a single thread has done its start step and has not
\* recorded an outcome, the health endpoint sees time = now, status
\* "running" and no message, also after an earlier run left a message.
C8_StartResetsRecord ==
    (/\ health.status = "healthy"
     /\ ~overlap
     /\ \E r \in Runs : tpc[r] = "L38")
        => /\ health.last_execution.status = "running"
           /\ health.last_execution.time = clock
           /\ health.last_execution.message = None

\* C9: under fair scheduling every started thread ends having recorded an
\* outcome, whether the command completes, times out or cannot be launched;
\* once a request was made the status is eventually "success" or "error",
\* and it is one of the two whenever every started thread has ended.
C9_EveryTaskRecordsOutcome ==
    /\ \A r \in Runs : (tpc[r] /= "idle") ~> (tpc[r] = "done")
    /\ (nreq > 0) ~> (last_execution.status \in {"success", "error"})
    /\ [](nreq > 0 /\ Quiet => last_execution.status \in {"success", "error"})

\* a thread whose command ran into the timeout has ended with "error"
C9_Witness ==
    /\ nreq > 0
    /\ Quiet
    /\ lastDone.kind = "timeout"
    /\ last_execution.status = "error"

\* status and message of a record are those of one outcome
SameOutcome(rec) ==
    /\ rec.status \in {"None", "success", "error"}
    /\ rec.status = "None" <=> rec.message = None
    /\ rec.status = "success" <=> rec.message = Text(SuccessText)
    /\ rec.status = "error" <=>
          /\ rec.message /= None
          /\ \/ StartsWith(rec.message.chars, FailedPrefix)
             \/ StartsWith(rec.message.chars, ErrorPrefix)

\* C10 as stated: whenever no thread is in progress, status and message
\* come from the same outcome, after any number of run requests, also
\* overlapping ones.
C10_RecordConsistent ==
    Quiet => SameOutcome(last_execution)

\* C10 amended: whenever no thread is in progress and no run request was
\* made while a thread was in progress, status and message come from the
\* same outcome.
C10_RecordConsistentSequential ==
    (Quiet /\ ~overlap) => SameOutcome(last_execution)

\* two runs, one after the other, have ended and the last one failed
C10_Witness ==
    /\ Quiet
    /\ ~overlap
    /\ nreq >= 2
    /\ last_execution.status = "error"

(***************************************************************************)
(* Properties of the auditor.                                              *)
(***************************************************************************)
RaisedPositions == {"raised@L170", "raised@L171", "raised@L172", "raised@L173"}

\* how many findings of a list have this text and this argument
CountOf(findings, text, arg) ==
    Cardinality({i \in 1..Len(findings) :
                    findings[i].text = text /\ findings[i].arg = arg})

\* C2: main returns 0 exactly when PROBLEMS is empty after the four checks
\* and 1 otherwise, whatever the number of warnings.
C2_ExitStatusIffNoProblems ==
    apc = "done" =>
        /\ exit_code \in {0, 1}
        /\ exit_code = 0 <=> Len(PROBLEMS) = 0

\* a run with advisories and no problem returned 0
C2_Witness ==
    apc = "done" /\ exit_code = 0 /\ Len(WARNINGS) > 0

\* C3: no exception escapes any of the four checks, whatever the shape of
\* the parsed documents.
C3_NoCheckRaises ==
    apc \notin RaisedPositions

\* the expected number of "Missing file" problems of a descriptor
MissingCount(file, each) == IF file.state = "missing" THEN each ELSE 0

\* C6 as stated, for the runs that end normally: exactly one "Missing file"
\* problem for each missing descriptor, none for a present one.
C6_OneProblemPerMissingFile ==
    apc = "done" =>
        /\ CountOf(PROBLEMS, "Missing file", "dbt_project.yml")
              = MissingCount(files.project, 1)
        /\ CountOf(PROBLEMS, "Missing file", "profiles.yml")
              = MissingCount(files.profiles, 1)

\* C6 amended: when the run ends, a missing dbt_project.yml has been
\* recorded twice (by the project/profile check and by the path check), a
\* missing profiles.yml once, a present descriptor never; and neither of
\* the two checks raises because of a missing descriptor.
C6_MissingFileProblems ==
    /\ (apc = "done" \/ apc \in RaisedPositions) =>
          /\ CountOf(PROBLEMS, "Missing file", "dbt_project.yml")
                = MissingCount(files.project, 2)
          /\ CountOf(PROBLEMS, "Missing file", "profiles.yml")
                = MissingCount(files.profiles, 1)
    /\ apc = "raised@L170" =>
          files.project.state = "ok" /\ files.profiles.state = "ok"
    /\ apc = "raised@L171" => files.project.state = "ok"

\* a run on a tree with neither descriptor has ended
C6_Witness ==
    /\ apc = "done"
    /\ files.project.state = "missing"
    /\ files.profiles.state = "missing"

\* project.get(key) of a document, None for a document without keys
KeyOf(doc, key) == IF doc.k = "map" THEN get(doc, key) ELSE YNull

\* C7: when both descriptors exist and parse, the project/profile check
\* records a problem for an absent or empty name and one for an absent or
\* empty profile, whatever the two files contain.
C7_NameAndProfileRequired ==
    (/\ apc = "L171"
     /\ files.project.state = "ok"
     /\ files.profiles.state = "ok")
        => /\ ~Truthy(KeyOf(files.project.doc, "name"))
                => CountOf(PROBLEMS, "dbt_project.yml: 'name' is required", "") > 0
           /\ ~Truthy(KeyOf(files.project.doc, "profile"))
                => CountOf(PROBLEMS, "dbt_project.yml: 'profile' is required", "") > 0

====
